---- MODULE Spec2Model ----
(***************************************************************************)
(* directus_client: a query-result cache in front of a remote item API,    *)
(* invalidated per collection by change events that a webhook server       *)
(* debounces, deduplicates and dispatches to observers.                    *)
(*                                                                         *)
(* A Go string that the code splits (a URL path, a collection) is a        *)
(* sequence of one-character strings; a Go string the code only compares,  *)
(* concatenates or hashes is a TLA+ string.  Str turns the first into the   *)
(* second where the code concatenates it into a key.                       *)
(***************************************************************************)
EXTENDS Integers, Sequences, FiniteSets, TLC

\* ------------------------------------------------------------------ bounds
NumTasks == 2
\* operations and webhook requests of a run of the cache with its change events
MaxOps == 3
MaxPosts == 1
\* the same of a run of the cache with one query per collection
RegOps == 2
RegPosts == 1
\* operations and expiries of a run of the cache without change events
StoreOps == 3
\* AddObserver calls and webhook requests of a run of the webhook server
WesOps == 1
WesPosts == 3
\* the same of a run of the observer registry
ObsOps == 3
ObsPosts == 2
\* AddObserver calls and webhook requests of a run of the webhook server
\* with callbacks that panic
PanicOps == 2
PanicPosts == 2
\* AddObserver calls and requests of a run of the webhook endpoint with any
\* client
HookOps == 1
HookPosts == 2
\* AddObserver calls and webhook requests of a run of the webhook server
\* with a callback that does not return
BlockOps == 1
BlockPosts == 10
\* webhook requests and time units of a run of the webhook server that
\* measures time
TimePosts == 5
TimeUnits == 6
\* Set calls and webhook requests of a run of the cache written through the
\* single-record path
SingleOps == 2
SinglePosts == 1
\* registry calls and webhook requests of a run of the webhook server with
\* RemoveObserver
RmOps == 2
RmPosts == 1
\* AddObserver calls and webhook requests of a run of the webhook server
\* with its shutdown
DownOps == 1
DownPosts == 2
\* calls of a run of the client
CallOps == 2
\* calls of a run of the client with GET requests only
ReadOps == 2

\* ------------------------------------------------------- program constants
ITEMS_MAX_LIMIT == 1000
DefaultKeyspace == "directus"
InChanCap == 4
OutChanCap == 4
\* duration (time.Second) in units of the clock of a run that measures time
Interval == 2

\* ----------------------------------------------------------------- strings
Users == <<"u", "s", "e", "r", "s">>
Posts == <<"p", "o", "s", "t", "s">>
Slash == <<"/">>
Star == <<"*">>
ItemsSlash == <<"i", "t", "e", "m", "s", "/">>
Id42 == <<"4", "2">>
Id7 == <<"7">>

RECURSIVE Str(_)
Str(s) == IF s = <<>> THEN "" ELSE Head(s) \o Str(Tail(s))

\* strings.Index: the first position at which sep occurs in s, 0 when none
Index(s, sep) ==
    LET hits == {i \in 1..(Len(s) - Len(sep) + 1) : SubSeq(s, i, i + Len(sep) - 1) = sep}
    IN  IF hits = {} THEN 0 ELSE CHOOSE i \in hits : \A j \in hits : i <= j

\* strings.Split(s, sep) for a non-empty sep
RECURSIVE Split(_, _)
Split(s, sep) ==
    LET i == Index(s, sep)
    IN  IF i = 0 THEN <<s>>
        ELSE <<SubSeq(s, 1, i - 1)>> \o Split(SubSeq(s, i + Len(sep), Len(s)), sep)

\* strings.SplitN(s, sep, 2)
SplitN2(s, sep) ==
    LET i == Index(s, sep)
    IN  IF i = 0 THEN <<s>>
        ELSE <<SubSeq(s, 1, i - 1), SubSeq(s, i + Len(sep), Len(s))>>

\* ----------------------------------------------------------- key derivation
\* The raw queries of the model, and the equality filter on id as
\* BuildQuery serialises it: json.Marshal(Filter{"id": {"_eq": id}})
QLimit == "limit=" \o ToString(ITEMS_MAX_LIMIT)
QFields == "fields=id&limit=1000"
CanonicalIdFilter(id) == "{\"id\":{\"_eq\":\"" \o Str(id) \o "\"}}"

\* xxhash.New(); h.Write([]byte(q)); strconv.FormatUint(h.Sum64(), 16):
\* XXH64 with seed 0 of the model's query strings, in lowercase hexadecimal
\* without leading zeros.
xxhashHex(q) ==
    CASE q = "" -> "ef46db3751d8e999"
      [] q = "limit=1000" -> "cfd4aa77a83ab875"
      [] q = "fields=id&limit=1000" -> "21202d7f9d2c051a"
      [] q = "{\"id\": {\"_eq\": 42}}" -> "7948a038dfb81b59"
      [] q = "{\"id\":{\"_eq\":\"42\"}}" -> "a680cc957a2cccf4"
      [] q = "{\"id\": {\"_eq\": 7}}" -> "6a38477ddecb5d5c"
      [] q = "{\"id\":{\"_eq\":\"7\"}}" -> "e0ad95595562f163"
      [] q = "{\"id\": {\"_eq\": }}" -> "d06ffb82766b2ea0"
      [] q = "{\"id\":{\"_eq\":\"\"}}" -> "67c0e61101fcb4c6"

\* fmt.Sprintf(`{"id": {"_eq": %s}}`, id)
IdFilter(id) == "{\"id\": {\"_eq\": " \o Str(id) \o "}}"

queryKey(c, q) ==
    LET split == Split(c, Slash)
        cc == IF Len(split) = 2 THEN split[1] ELSE c
        qq == IF Len(split) = 2 THEN IdFilter(split[2]) ELSE q
    IN  Str(cc) \o ":" \o xxhashHex(qq)

\* ------------------------------------------------------------- the store
\* The Redis keyspace as a function from the keys present to their values.
Nil == "<nil>"

Without(f, k) == [x \in DOMAIN f \ {k} |-> f[x]]
With(f, k, v) == [x \in DOMAIN f \cup {k} |-> IF x = k THEN v ELSE f[x]]

\* redisGet reading the key without the keyspace prefix
redisGet_NoKeyspace(s, key) ==
    IF key \in DOMAIN s THEN [err |-> FALSE, data |-> s[key]]
    ELSE [err |-> TRUE, data |-> Nil]

\* redisCacheService.Get: GET keyspace:key; a missing key is the error redis.Nil
redisGet(s, key) ==
    LET k == DefaultKeyspace \o ":" \o key
    IN  IF k \in DOMAIN s THEN [err |-> FALSE, data |-> s[k]]
        ELSE [err |-> TRUE, data |-> Nil]

\* redisCacheService.Set: SET keyspace:key value EX ttl
redisSet(s, key, value) == With(s, DefaultKeyspace \o ":" \o key, value)

\* redisCacheService.Del: DEL keyspace:key, which removes the key of exactly
\* that name (DEL takes key names, not patterns)
redisDel(s, key) == Without(s, DefaultKeyspace \o ":" \o key)

\* ------------------------------------------------------------------ state
VARIABLES
    store,                \* the Redis keyspace behind redisCacheService
    observedCollections,  \* refreshableQueryCache.observedCollections
    qmu,                  \* refreshableQueryCache.mu is locked
    observes,             \* WebhookEventServer.observes: collection -> callback
    wesReaders,           \* read locks held on WebhookEventServer.mu
    pc,                   \* where each request task stands
    req,                  \* the operation each task is executing
    ret,                  \* what the operation that returned last returned, and to whom
    nops,                 \* operations started and entries expired
    lim,                  \* the operations and webhook requests of this run
    inChan,               \* makeTimedBufferTransferChan: inChan
    buf,                  \* makeTimedBufferTransferChan: buf
    tbpc,                 \* the timed-buffer goroutine: "select" or "send"
    outChan,              \* makeTimedBufferTransferChan: outChan
    dpc,                  \* the dispatch goroutine: "recv", "range" or "wild"
    uniqueEvents,         \* the dispatch goroutine's map of deduplicated events
    visited,              \* the events of uniqueEvents the range loop has visited
    dCur,                 \* the event the dispatch loop is at
    flushed,              \* the batch the dispatch goroutine received last
    fired,                \* the callbacks invoked in the current flush, in order
    status,               \* the status of the webhook endpoint's last response
    nposts,               \* requests the webhook endpoint answered
    shut,                 \* the done signal: "no", "pending" (the send waits), "taken"
    closed,               \* inChan and outChan are closed
    tsel,                 \* time units the timed-buffer goroutine has waited at its
                          \* select with events in buf, in a run that measures time
    bufAge,               \* time units since the oldest event of buf was buffered
    addRet,               \* what the last direct AddObserver call returned
    regOk,                \* AddObserver calls that succeeded, per collection
    raced,                \* collections whose first writers overlapped
    lastSet               \* the last Set written to the store and not removed since

cacheVars == <<store, observedCollections, qmu>>
taskVars == <<pc, req, ret, nops, lim>>
pipeVars == <<inChan, buf, tbpc, outChan, status, nposts, shut, closed, tsel, bufAge>>
dispVars == <<dpc, uniqueEvents, visited, dCur, flushed, fired>>
wesVars == <<observes, wesReaders, addRet, regOk>>
ghostVars == <<raced, lastSet>>
vars == <<cacheVars, taskVars, pipeVars, dispVars, wesVars, ghostVars>>

Tasks == 1..NumTasks

NoReq == [op |-> "none", method |-> "", c |-> <<>>, q |-> "", data |-> Nil,
          gets |-> 0, origin |-> 0, sets |-> 0]
\* cached: the bytes d.cache.Get handed to Call, Nil when it returned an error
NoRet == [task |-> 0, op |-> "none", method |-> "", err |-> "", code |-> 0,
          body |-> Nil, sent |-> Nil, cached |-> Nil, gets |-> 0, origin |-> 0, sets |-> 0]
NoEvent == [collection |-> <<>>, event |-> "", key |-> "", payload |-> "", ptr |-> 0]
NoCallback == [kind |-> "none", id |-> <<>>]
NoAdd == [n |-> 0, c |-> <<>>, cb |-> NoCallback, old |-> NoCallback, err |-> FALSE]

InitWith(l, p, r) ==
    /\ lim = l
    /\ store = <<>>
    /\ observedCollections = {}
    /\ qmu = FALSE
    /\ observes = <<>>
    /\ wesReaders = 0
    /\ pc = p
    /\ req = r
    /\ ret = NoRet
    /\ nops = 0
    /\ inChan = <<>>
    /\ buf = <<>>
    /\ tbpc = "select"
    /\ outChan = <<>>
    /\ dpc = "recv"
    /\ uniqueEvents = {}
    /\ visited = {}
    /\ dCur = NoEvent
    /\ flushed = <<>>
    /\ fired = <<>>
    /\ status = 0
    /\ nposts = 0
    /\ shut = "no"
    /\ closed = FALSE
    /\ tsel = 0
    /\ bufAge = 0
    /\ addRet = NoAdd
    /\ regOk = <<>>
    /\ raced = {}
    /\ lastSet = NoReq

Idle == [t \in Tasks |-> "idle"]
NoReqs == [t \in Tasks |-> NoReq]

Init == InitWith([ops |-> MaxOps, posts |-> MaxPosts, time |-> 0], Idle, NoReqs)

\* -------------------------------------------------------- observer registry
\* The callback Set registers: func(we) { q.pruneCollection(collection) }
PruneCallback(c) == [kind |-> "prune", id |-> c]
\* A callback of the application
UserCallback(id) == [kind |-> "user", id |-> id]
\* A callback of the application that panics when it is called
PanicCallback(id) == [kind |-> "panic", id |-> id]
\* A callback of the application that does not return
BlockCallback(id) == [kind |-> "block", id |-> id]

\* AddObserver replacing a callback that is already registered
AddObserver_Replace(obs, c, f) == [err |-> FALSE, observes |-> With(obs, c, f)]

\* WebhookEventServer.AddObserver on the registry obs
AddObserver(obs, c, f) ==
    IF c \in DOMAIN obs
    THEN [err |-> TRUE, observes |-> obs]
    ELSE [err |-> FALSE, observes |-> With(obs, c, f)]

Count(m, c) == IF c \in DOMAIN m THEN m[c] ELSE 0

\* ------------------------------------------------------------ request tasks
Finish(t, r) ==
    /\ pc' = [pc EXCEPT ![t] = "idle"]
    /\ req' = [req EXCEPT ![t] = NoReq]
    /\ ret' = [r EXCEPT !.task = t]

\* What Set hands back, (b, nil) or (nil, err), and what its caller makes of it:
\* a direct caller has the pair; Call logs the error and wraps the bytes it got
\* in the response body it returns.
SetReturn(t, b, err) ==
    LET r == req[t]
    IN  IF r.op = "Set"
        THEN Finish(t, [NoRet EXCEPT !.op = "Set", !.err = err,
                                      !.body = b, !.sent = r.data])
        ELSE Finish(t, [NoRet EXCEPT !.op = "Call", !.method = r.method, !.code = 200,
                                      !.body = IF b = Nil THEN "" ELSE b,
                                      !.sent = r.data, !.gets = r.gets,
                                      !.origin = r.origin, !.sets = r.sets])

\* A client of the QueryCache starts Set(c, q, data)
StartSet(t, c, q, p) ==
    /\ pc[t] = "idle"
    /\ nops < lim.ops
    /\ nops' = nops + 1
    /\ pc' = [pc EXCEPT ![t] = "set_store"]
    /\ req' = [req EXCEPT ![t] = [NoReq EXCEPT !.op = "Set", !.c = c, !.q = q, !.data = p]]
    /\ UNCHANGED <<ret, lim, cacheVars, pipeVars, dispVars, wesVars, ghostVars>>

\* refreshableQueryCache.Set up to the store write: io.ReadAll, then store.Set
\* under the derived key; either may fail, and Set then returns (nil, err).
SetStore(t) ==
    /\ pc[t] = "set_store"
    /\ \E ok \in BOOLEAN :
        IF ok
        THEN /\ store' = redisSet(store, queryKey(req[t].c, req[t].q), req[t].data)
             /\ lastSet' = [NoReq EXCEPT !.op = "Set", !.c = req[t].c, !.q = req[t].q,
                                          !.data = req[t].data]
             /\ pc' = [pc EXCEPT ![t] = "set_lock"]
             /\ UNCHANGED <<req, ret>>
        ELSE /\ SetReturn(t, Nil, "set failed")
             /\ UNCHANGED <<store, lastSet>>
    /\ UNCHANGED <<observedCollections, qmu, nops, lim, pipeVars, dispVars, wesVars, raced>>

\* SetLock with the membership test inverted: the first writer returns early
SetLock_Inverted(t) ==
    /\ pc[t] = "set_lock"
    /\ ~qmu
    /\ IF req[t].c \notin observedCollections
       THEN /\ qmu' = TRUE
            /\ SetReturn(t, req[t].data, "")
            /\ UNCHANGED <<observedCollections, raced>>
       ELSE /\ pc' = [pc EXCEPT ![t] = "set_add"]
            /\ UNCHANGED <<observedCollections, qmu, req, ret, raced>>
    /\ UNCHANGED <<store, nops, lim, pipeVars, dispVars, wesVars, lastSet>>

\* refreshableQueryCache.Set, the locked section: q.mu.Lock(); a collection
\* already observed returns (b, nil) with the mutex still locked; otherwise
\* the collection is marked and the mutex unlocked.
SetLock(t) ==
    /\ pc[t] = "set_lock"
    /\ ~qmu
    /\ IF req[t].c \in observedCollections
       THEN /\ qmu' = TRUE
            /\ SetReturn(t, req[t].data, "")
            /\ raced' = IF \E u \in Tasks \ {t} : pc[u] = "set_add" /\ req[u].c = req[t].c
                        THEN raced \cup {req[t].c} ELSE raced
            /\ UNCHANGED observedCollections
       ELSE /\ observedCollections' = observedCollections \cup {req[t].c}
            /\ pc' = [pc EXCEPT ![t] = "set_add"]
            /\ UNCHANGED <<qmu, req, ret, raced>>
    /\ UNCHANGED <<store, nops, lim, pipeVars, dispVars, wesVars, lastSet>>

\* refreshableQueryCache.Set, the registration: wes.AddObserver(collection,
\* prune callback) under wes.mu.Lock(); a failure is logged; Set returns (b, nil).
SetAddObserver(t) ==
    /\ pc[t] = "set_add"
    /\ wesReaders = 0
    /\ LET a == AddObserver(observes, req[t].c, PruneCallback(req[t].c))
       IN  /\ observes' = a.observes
           /\ regOk' = IF a.err THEN regOk
                       ELSE With(regOk, req[t].c, Count(regOk, req[t].c) + 1)
    /\ SetReturn(t, req[t].data, "")
    /\ UNCHANGED <<cacheVars, nops, lim, pipeVars, dispVars, wesReaders, addRet, ghostVars>>

\* refreshableQueryCache.Get on the store s, the store answering
CacheGet(s, c, q) == redisGet(s, queryKey(c, q))

\* refreshableQueryCache.Get: store.Get under the derived key; the store may
\* also fail (a timeout), which Get returns as its error.
Get(t, c, q) ==
    /\ pc[t] = "idle"
    /\ nops < lim.ops
    /\ nops' = nops + 1
    /\ \E fault \in BOOLEAN :
        LET g == CacheGet(store, c, q)
        IN  Finish(t, [NoRet EXCEPT
                !.op = "Get",
                !.err = IF fault THEN "timeout" ELSE IF g.err THEN "redis: nil" ELSE "",
                !.body = IF fault THEN Nil ELSE g.data,
                !.sent = IF lastSet.op = "Set" /\ lastSet.c = c /\ lastSet.q = q
                         THEN lastSet.data ELSE Nil])
    /\ UNCHANGED <<lim, cacheVars, pipeVars, dispVars, wesVars, ghostVars>>

\* The store's time-to-live (r.ttl): an entry expires
Expire(k) ==
    /\ k \in DOMAIN store
    /\ nops < lim.ops
    /\ nops' = nops + 1
    /\ store' = Without(store, k)
    /\ lastSet' = NoReq
    /\ UNCHANGED <<observedCollections, qmu, pc, req, ret, lim, pipeVars, dispVars, wesVars,
                   raced>>

\* --------------------------------------------------------- DirectusClient
Methods == {"GET", "POST", "PATCH", "DELETE"}
NoURL == [path |-> <<>>, rawQuery |-> Nil]

\* CacheHit answering with an empty body
CacheHit_EmptyBody(method, data) ==
    [NoRet EXCEPT !.op = "Call", !.method = method, !.code = 200, !.body = "",
                  !.cached = data, !.gets = 1]

\* DirectusClient.Call on a hit: &http.Response{StatusCode: 200, Body: data}
CacheHit(method, data) ==
    [NoRet EXCEPT !.op = "Call", !.method = method, !.code = 200, !.body = data,
                  !.cached = data, !.gets = 1]

\* DirectusClient.Call up to the cache lookup: the method and the URL are
\* validated, an empty query becomes the default limit, the collection is what
\* follows "items/" in the path, and d.cache.Get is tried; a hit is returned
\* as a 200 response around the cached bytes.
CallStart(t, method, url) ==
    /\ pc[t] = "idle"
    /\ nops < lim.ops
    /\ nops' = nops + 1
    /\ LET rawQuery == IF url.rawQuery = "" THEN "limit=" \o ToString(ITEMS_MAX_LIMIT)
                       ELSE url.rawQuery
           split == SplitN2(url.path, ItemsSlash)
           fail(e) == Finish(t, [NoRet EXCEPT !.op = "Call", !.method = method, !.err = e])
       IN  IF method \notin Methods THEN fail("invalid method")
           ELSE IF url = NoURL THEN fail("url is required")
           ELSE IF Len(split) # 2 THEN fail("invalid url")
           ELSE \E fault \in BOOLEAN :
                LET g == CacheGet(store, split[2], rawQuery)
                IN  IF ~fault /\ ~g.err
                    THEN Finish(t, CacheHit(method, g.data))
                    ELSE /\ pc' = [pc EXCEPT ![t] = "call_do"]
                         /\ req' = [req EXCEPT ![t] = [NoReq EXCEPT
                                !.op = "Call", !.method = method, !.c = split[2],
                                !.q = rawQuery, !.gets = 1]]
                         /\ UNCHANGED ret
    /\ UNCHANGED <<lim, cacheVars, pipeVars, dispVars, wesVars, ghostVars>>

\* d.client.Do(r): the transport fails, or the origin answers with a status and
\* a body; a 200 body is handed to d.cache.Set, any other response is returned
\* as it came.
CallDo(t, o) ==
    /\ pc[t] = "call_do"
    /\ IF o.err
       THEN Finish(t, [NoRet EXCEPT !.op = "Call", !.method = req[t].method,
                                    !.err = "transport",
                                    !.gets = req[t].gets, !.origin = 1])
       ELSE IF o.code = 200
       THEN /\ pc' = [pc EXCEPT ![t] = "set_store"]
            /\ req' = [req EXCEPT ![t].data = o.body, ![t].origin = 1, ![t].sets = 1]
            /\ UNCHANGED ret
       ELSE Finish(t, [NoRet EXCEPT !.op = "Call", !.method = req[t].method, !.code = o.code,
                                    !.body = o.body, !.sent = o.body,
                                    !.gets = req[t].gets, !.origin = 1])
    /\ UNCHANGED <<nops, lim, cacheVars, pipeVars, dispVars, wesVars, ghostVars>>

\* ------------------------------------------------------ WebhookEventServer
BadJSON == [NoEvent EXCEPT !.payload = "not json"]

\* HandlerPost without the test of the content type
HandlerPost_AnyContentType(method, ctype, body) ==
    /\ shut = "no"
    /\ dpc # "panic"
    /\ nposts < lim.posts
    /\ nposts' = nposts + 1
    /\ IF method # "POST" THEN status' = 405 /\ UNCHANGED inChan
       ELSE IF body = BadJSON THEN status' = 400 /\ UNCHANGED inChan
       ELSE /\ Len(inChan) < InChanCap
            /\ inChan' = Append(inChan, [body EXCEPT !.ptr = nposts + 1])
            /\ status' = 200
    /\ UNCHANGED <<buf, tbpc, outChan, shut, closed, tsel, bufAge, cacheVars, taskVars,
                   dispVars, wesVars, ghostVars>>

\* The webhook endpoint's handler: a request that is not a POST of
\* application/json with a body that decodes is answered 405 or 400; a decoded
\* event is sent to fluxInput (the handler waits while the channel is full) and
\* the request answered 200.  ptr is the address of the event new() allocated.
\* The listener takes no request once Shutdown has been called or a panic has
\* ended the process.
HandlerPost(method, ctype, body) ==
    /\ shut = "no"
    /\ dpc # "panic"
    /\ nposts < lim.posts
    /\ nposts' = nposts + 1
    /\ IF method # "POST" THEN status' = 405 /\ UNCHANGED inChan
       ELSE IF ctype # "application/json" THEN status' = 400 /\ UNCHANGED inChan
       ELSE IF body = BadJSON THEN status' = 400 /\ UNCHANGED inChan
       ELSE /\ Len(inChan) < InChanCap
            /\ inChan' = Append(inChan, [body EXCEPT !.ptr = nposts + 1])
            /\ status' = 200
    /\ UNCHANGED <<buf, tbpc, outChan, shut, closed, tsel, bufAge, cacheVars, taskVars,
                   dispVars, wesVars, ghostVars>>

\* makeTimedBufferTransferChan, case e := <-inChan; the loop then comes back
\* to the select, where time.Tick(duration) makes a new ticker
TimedBufferRecv ==
    /\ tbpc = "select"
    /\ inChan # <<>>
    /\ buf' = Append(buf, Head(inChan))
    /\ inChan' = Tail(inChan)
    /\ tsel' = 0
    /\ bufAge' = IF buf = <<>> THEN 0 ELSE bufAge
    /\ UNCHANGED <<tbpc, outChan, status, nposts, shut, closed, cacheVars, taskVars,
                   dispVars, wesVars, ghostVars>>

\* makeTimedBufferTransferChan, case <-time.Tick(duration): every pass of the
\* loop makes a new ticker, so the tick is taken only when no event has been
\* waiting in inChan, and no done signal waiting to be taken, for a whole
\* duration; a non-empty buf is then sent to outChan, the goroutine waiting in
\* the send while outChan is full.  A run that does not measure time lets any
\* time pass between two steps; one that does (lim.time > 0) takes the tick
\* when the ticker of this pass has run for Interval units.
TimedBufferTick ==
    /\ buf # <<>>
    /\ IF tbpc = "select"
       THEN inChan = <<>> /\ shut # "pending" /\ (lim.time > 0 => tsel = Interval)
       ELSE tbpc = "send"
    /\ IF Len(outChan) < OutChanCap
       THEN /\ outChan' = Append(outChan, buf)
            /\ buf' = <<>>
            /\ tbpc' = "select"
            /\ tsel' = 0
            /\ bufAge' = 0
       ELSE /\ tbpc' = "send"
            /\ UNCHANGED <<outChan, buf, tsel, bufAge>>
    /\ UNCHANGED <<inChan, status, nposts, shut, closed, cacheVars, taskVars, dispVars,
                   wesVars, ghostVars>>

\* A unit of time passes in a run that measures time.  A goroutine at a select
\* with a case that is ready takes it before the clock moves: an event in
\* inChan, or the ticker of this pass when it is due.
Tock ==
    /\ lim.time > 0
    /\ bufAge < lim.time
    /\ buf # <<>>
    /\ tbpc = "select" => (inChan = <<>> /\ tsel < Interval)
    /\ tsel' = IF tbpc = "select" THEN tsel + 1 ELSE tsel
    /\ bufAge' = bufAge + 1
    /\ UNCHANGED <<inChan, buf, tbpc, outChan, status, nposts, shut, closed, cacheVars,
                   taskVars, dispVars, wesVars, ghostVars>>

\* The key of the dispatch goroutine's map: e.Collection+":"+e.Event+":"+e.Key
Composite(e) == Str(e.collection) \o ":" \o e.event \o ":" \o e.key

\* Dedupe keeping the first event under a key instead of the last
Dedupe_KeepFirst(ex) ==
    {ex[i] : i \in {i \in 1..Len(ex) :
                      \A j \in 1..(i - 1) : Composite(ex[j]) # Composite(ex[i])}}

\* uniqueEvents after the loop over the batch ex: a later event replaces an
\* earlier one under the same key
Dedupe(ex) ==
    {ex[i] : i \in {i \in 1..Len(ex) :
                      \A j \in (i + 1)..Len(ex) : Composite(ex[j]) # Composite(ex[i])}}

\* The dispatch goroutine, case ex := <-fluxOutput: the batch is deduplicated
\* and wes.mu read-locked
DispatchRecv ==
    /\ dpc = "recv"
    /\ outChan # <<>>
    /\ flushed' = Head(outChan)
    /\ outChan' = Tail(outChan)
    /\ uniqueEvents' = Dedupe(Head(outChan))
    /\ visited' = {}
    /\ fired' = <<>>
    /\ wesReaders' = wesReaders + 1
    /\ dpc' = "range"
    /\ UNCHANGED <<dCur, inChan, buf, tbpc, status, nposts, shut, closed, tsel, bufAge, cacheVars,
                   taskVars, observes, addRet, regOk, ghostVars>>

\* refreshableQueryCache.pruneCollection on the store
pruneStore(s, c) == redisDel(s, Str(c) \o ":" \o "*")

\* A callback runs and returns: the cache's callback is pruneCollection under
\* q.mu, the application's does nothing to the cache; the dispatch loop stays
\* in the call of a callback that does not return
Invoke(cb) ==
    IF cb.kind = "prune"
    THEN /\ ~qmu
         /\ observedCollections' = observedCollections \ {cb.id}
         /\ store' = pruneStore(store, cb.id)
         /\ lastSet' = NoReq
         /\ UNCHANGED qmu
    ELSE /\ cb.kind \notin {"panic", "block"}
         /\ UNCHANGED <<cacheVars, lastSet>>

\* The range loop at one event, in the map's order (any): the observer of the
\* event's collection
DispatchExact(e) ==
    /\ dpc = "range"
    /\ e \in uniqueEvents \ visited
    /\ IF e.collection \in DOMAIN observes
       THEN /\ Invoke(observes[e.collection])
            /\ fired' = Append(fired, [obs |-> e.collection,
                                       cb |-> observes[e.collection], ev |-> e])
       ELSE UNCHANGED <<cacheVars, lastSet, fired>>
    /\ dCur' = e
    /\ visited' = visited \cup {e}
    /\ dpc' = "wild"
    /\ UNCHANGED <<uniqueEvents, flushed, pipeVars, taskVars, wesVars, raced>>

\* The range loop at the same event: the observer of "*"
DispatchWild ==
    /\ dpc = "wild"
    /\ IF Star \in DOMAIN observes
       THEN /\ Invoke(observes[Star])
            /\ fired' = Append(fired, [obs |-> Star, cb |-> observes[Star], ev |-> dCur])
       ELSE UNCHANGED <<cacheVars, lastSet, fired>>
    /\ dCur' = NoEvent
    /\ dpc' = "range"
    /\ UNCHANGED <<uniqueEvents, visited, flushed, pipeVars, taskVars, wesVars, raced>>

\* The observer the range loop calls next: the one of the event's collection
\* at an event not yet visited, the one of "*" after it
NextObserver(e) ==
    IF dpc = "wild" THEN [obs |-> Star, ev |-> dCur] ELSE [obs |-> e.collection, ev |-> e]

\* f(*e) panics: nothing in the dispatch goroutine recovers, so the panic ends
\* the process with wes.mu read-locked: the loop, the timed-buffer goroutine
\* and the listener are gone.
DispatchPanic(e) ==
    /\ IF dpc = "wild" THEN e = dCur ELSE dpc = "range" /\ e \in uniqueEvents \ visited
    /\ LET n == NextObserver(e)
       IN  /\ n.obs \in DOMAIN observes
           /\ observes[n.obs].kind = "panic"
           /\ fired' = Append(fired, [obs |-> n.obs, cb |-> observes[n.obs], ev |-> n.ev])
    /\ dCur' = e
    /\ visited' = visited \cup {e}
    /\ dpc' = "panic"
    /\ tbpc' = "exit"
    /\ UNCHANGED <<uniqueEvents, flushed, inChan, buf, outChan, status, nposts, shut, closed,
                   tsel, bufAge,
                   cacheVars, taskVars, wesVars, ghostVars>>

\* The range loop is over: wes.mu.RUnlock()
DispatchRUnlock ==
    /\ dpc = "range"
    /\ uniqueEvents = visited
    /\ wesReaders' = wesReaders - 1
    /\ dpc' = "recv"
    /\ UNCHANGED <<uniqueEvents, visited, dCur, flushed, fired, pipeVars, cacheVars,
                   taskVars, observes, addRet, regOk, ghostVars>>

\* WebhookEventServer.Shutdown: svr.Shutdown closes the listener and starts the
\* function registered with RegisterOnShutdown in a goroutine of its own, which
\* waits in the send done <- struct{}{} (done is unbuffered) for one receiver.
Shutdown ==
    /\ shut = "no"
    /\ shut' = "pending"
    /\ UNCHANGED <<inChan, buf, tbpc, outChan, status, nposts, closed, tsel, bufAge, cacheVars, taskVars,
                   dispVars, wesVars, ghostVars>>

\* makeTimedBufferTransferChan, case <-done: the goroutine at its select takes
\* the signal, closes both channels and returns; what buf and inChan hold stays
\* where it is, with no goroutine left to read it.
TimedBufferDone ==
    /\ tbpc = "select"
    /\ shut = "pending"
    /\ shut' = "taken"
    /\ closed' = TRUE
    /\ tbpc' = "done"
    /\ UNCHANGED <<inChan, buf, outChan, status, nposts, tsel, bufAge, cacheVars, taskVars,
                   dispVars, wesVars, ghostVars>>

\* The dispatch goroutine, case <-done: the goroutine at its select takes the
\* signal and returns
DispatchDone ==
    /\ dpc = "recv"
    /\ shut = "pending"
    /\ shut' = "taken"
    /\ dpc' = "done"
    /\ UNCHANGED <<inChan, buf, tbpc, outChan, status, nposts, closed, tsel, bufAge, cacheVars, taskVars,
                   uniqueEvents, visited, dCur, flushed, fired, wesVars, ghostVars>>

\* The dispatch goroutine, case ex := <-fluxOutput on the closed and drained
\* channel: the receive yields a nil batch at once, the map is empty and
\* wes.mu is read-locked for a loop over nothing.
DispatchRecvClosed ==
    /\ dpc = "recv"
    /\ closed
    /\ outChan = <<>>
    /\ flushed' = <<>>
    /\ uniqueEvents' = {}
    /\ visited' = {}
    /\ fired' = <<>>
    /\ wesReaders' = wesReaders + 1
    /\ dpc' = "range"
    /\ UNCHANGED <<dCur, pipeVars, cacheVars, taskVars, observes, addRet, regOk, ghostVars>>

\* The application calls wes.AddObserver(c, f)
UserAddObserver(c, f) ==
    /\ nops < lim.ops
    /\ nops' = nops + 1
    /\ wesReaders = 0
    /\ LET a == AddObserver(observes, c, f)
       IN  /\ observes' = a.observes
           /\ addRet' = [n |-> addRet.n + 1, c |-> c, cb |-> f, err |-> a.err,
                          old |-> IF c \in DOMAIN observes THEN observes[c] ELSE NoCallback]
           /\ regOk' = IF a.err THEN regOk ELSE With(regOk, c, Count(regOk, c) + 1)
    /\ UNCHANGED <<wesReaders, pc, req, ret, lim, cacheVars, pipeVars, dispVars, ghostVars>>

\* WebhookEventServer.RemoveObserver: wes.mu.RLock(), delete(wes.observes, c),
\* and no unlock: the call returns holding the read lock.  The delete writes
\* the map under a read lock, so it races with the dispatch loop's lookups in
\* its own read-locked section: the delete takes effect, or the runtime stops
\* the process (concurrent map read and map write).
RemoveObserver(c) ==
    /\ nops < lim.ops
    /\ nops' = nops + 1
    /\ dpc # "panic"
    /\ \E fatal \in {b \in BOOLEAN : b => dpc \in {"range", "wild"}} :
        IF fatal
        THEN /\ dpc' = "panic"
             /\ tbpc' = "exit"
             /\ UNCHANGED <<observes, wesReaders>>
        ELSE /\ observes' = Without(observes, c)
             /\ wesReaders' = wesReaders + 1
             /\ UNCHANGED <<dpc, tbpc>>
    /\ UNCHANGED <<pc, req, ret, lim, addRet, regOk, inChan, buf, outChan, status, nposts,
                   shut, closed, tsel, bufAge, uniqueEvents, visited, dCur, flushed, fired,
                   cacheVars,
                   ghostVars>>

\* ------------------------------------------------------------ the system
Payloads == {"p1", "p2"}
Queries == {QLimit, QFields}
Collections == {Users, Posts}
Event(c, e, k) == [collection |-> c, event |-> e, key |-> k, payload |-> "null", ptr |-> 0]
ChangeEvents == {Event(Users, "update", "7"), Event(Posts, "update", "7")}

\* The query cache with its clients, the store's expiry and the change events
\* of the origin
Next ==
    \/ \E t \in Tasks, c \in Collections, q \in Queries, p \in Payloads : StartSet(t, c, q, p)
    \/ \E t \in Tasks : SetStore(t)
    \/ \E t \in Tasks : SetLock(t)
    \/ \E t \in Tasks : SetAddObserver(t)
    \/ \E t \in Tasks, c \in Collections, q \in Queries : Get(t, c, q)
    \/ \E k \in DOMAIN store : Expire(k)
    \/ \E e \in ChangeEvents : HandlerPost("POST", "application/json", e)
    \/ TimedBufferRecv
    \/ TimedBufferTick
    \/ DispatchRecv
    \/ \E e \in uniqueEvents : DispatchExact(e)
    \/ DispatchWild
    \/ DispatchRUnlock

Spec == Init /\ [][Next]_vars

\* The cache with its change events, one query and one payload per collection
InitReg == InitWith([ops |-> RegOps, posts |-> RegPosts, time |-> 0], Idle, NoReqs)

NextReg ==
    \/ \E t \in Tasks, c \in Collections : StartSet(t, c, QLimit, "p1")
    \/ \E t \in Tasks : SetStore(t)
    \/ \E t \in Tasks : SetLock(t)
    \/ \E t \in Tasks : SetAddObserver(t)
    \/ \E e \in ChangeEvents : HandlerPost("POST", "application/json", e)
    \/ TimedBufferRecv
    \/ TimedBufferTick
    \/ DispatchRecv
    \/ \E e \in uniqueEvents : DispatchExact(e)
    \/ DispatchWild
    \/ DispatchRUnlock

SpecReg == InitReg /\ [][NextReg]_vars

\* The cache without change events: stores, lookups and expiry, for a
\* collection and for a single record of it
StorePairs == {<<Users, QLimit>>, <<Users, QFields>>, <<Users \o Slash \o Id42, QLimit>>}

InitStore == InitWith([ops |-> StoreOps, posts |-> 0, time |-> 0], Idle, NoReqs)

NextStore ==
    \/ \E t \in Tasks, k \in StorePairs, p \in Payloads : StartSet(t, k[1], k[2], p)
    \/ \E t \in Tasks : SetStore(t)
    \/ \E t \in Tasks : SetLock(t)
    \/ \E t \in Tasks : SetAddObserver(t)
    \/ \E t \in Tasks, k \in StorePairs : Get(t, k[1], k[2])
    \/ \E k \in DOMAIN store : Expire(k)

SpecStore == InitStore /\ [][NextStore]_vars

\* The webhook server with an observer of the application and any client of
\* its endpoint
WesCollections == {Users, Star}
WesCallbacks == {UserCallback(<<"f", "1">>), UserCallback(<<"f", "2">>)}
WesEvents == {Event(Users, "update", "7"), Event(Star, "update", "7"),
              Event(<<"a", ":", "b">>, "c", "d"), Event(<<"a">>, "b:c", "d")}

InitWes == InitWith([ops |-> WesOps, posts |-> WesPosts, time |-> 0], Idle, NoReqs)

NextWes ==
    \/ \E c \in WesCollections : UserAddObserver(c, UserCallback(<<"f", "1">>))
    \/ \E m \in {"POST", "GET"}, ct \in {"application/json", "text/plain"},
          b \in WesEvents \cup {BadJSON} : HandlerPost(m, ct, b)
    \/ TimedBufferRecv
    \/ TimedBufferTick
    \/ DispatchRecv
    \/ \E e \in uniqueEvents : DispatchExact(e)
    \/ DispatchWild
    \/ DispatchRUnlock

SpecWes == InitWes /\ [][NextWes]_vars

\* The observer registry with two callbacks of the application and the
\* change events of the origin
ObsEvents == {Event(Users, "update", "7"), Event(Star, "update", "7")}

InitObs == InitWith([ops |-> ObsOps, posts |-> ObsPosts, time |-> 0], Idle, NoReqs)

NextObs ==
    \/ \E c \in WesCollections, f \in WesCallbacks : UserAddObserver(c, f)
    \/ \E e \in ObsEvents : HandlerPost("POST", "application/json", e)
    \/ TimedBufferRecv
    \/ TimedBufferTick
    \/ DispatchRecv
    \/ \E e \in uniqueEvents : DispatchExact(e)
    \/ DispatchWild
    \/ DispatchRUnlock

SpecObs == InitObs /\ [][NextObs]_vars

\* The webhook server with callbacks of the application that return and
\* callbacks that panic
PanicCallbacks == {UserCallback(<<"f", "1">>), PanicCallback(<<"f", "2">>)}

InitPanic == InitWith([ops |-> PanicOps, posts |-> PanicPosts, time |-> 0], Idle, NoReqs)

NextPanic ==
    \/ \E c \in WesCollections, f \in PanicCallbacks : UserAddObserver(c, f)
    \/ \E e \in ObsEvents : HandlerPost("POST", "application/json", e)
    \/ TimedBufferRecv
    \/ TimedBufferTick
    \/ DispatchRecv
    \/ \E e \in uniqueEvents : DispatchExact(e)
    \/ DispatchWild
    \/ \E e \in uniqueEvents : DispatchPanic(e)
    \/ DispatchRUnlock

SpecPanic == InitPanic /\ [][NextPanic]_vars

\* The webhook server with observers added and removed
InitRm == InitWith([ops |-> RmOps, posts |-> RmPosts, time |-> 0], Idle, NoReqs)

NextRm ==
    \/ \E c \in WesCollections : UserAddObserver(c, UserCallback(<<"f", "1">>))
    \/ \E c \in WesCollections : RemoveObserver(c)
    \/ \E e \in ObsEvents : HandlerPost("POST", "application/json", e)
    \/ TimedBufferRecv
    \/ TimedBufferTick
    \/ DispatchRecv
    \/ \E e \in uniqueEvents : DispatchExact(e)
    \/ DispatchWild
    \/ DispatchRUnlock

SpecRm == InitRm /\ [][NextRm]_vars

\* The webhook server with a callback of the application that returns or one
\* that does not, and the change events of one collection
BlockCallbacks == {UserCallback(<<"f", "1">>), BlockCallback(<<"f", "2">>)}

InitBlock == InitWith([ops |-> BlockOps, posts |-> BlockPosts, time |-> 0], Idle, NoReqs)

NextBlock ==
    \/ \E c \in WesCollections, f \in BlockCallbacks : UserAddObserver(c, f)
    \/ HandlerPost("POST", "application/json", Event(Users, "update", "7"))
    \/ TimedBufferRecv
    \/ TimedBufferTick
    \/ DispatchRecv
    \/ \E e \in uniqueEvents : DispatchExact(e)
    \/ DispatchWild
    \/ DispatchRUnlock

SpecBlock == InitBlock /\ [][NextBlock]_vars

\* The webhook server with a clock: change events of one collection arrive at
\* any time
InitTime == InitWith([ops |-> 0, posts |-> TimePosts, time |-> TimeUnits], Idle, NoReqs)

NextTime ==
    \/ HandlerPost("POST", "application/json", Event(Users, "update", "7"))
    \/ Tock
    \/ TimedBufferRecv
    \/ TimedBufferTick
    \/ DispatchRecv
    \/ \E e \in uniqueEvents : DispatchExact(e)
    \/ DispatchWild
    \/ DispatchRUnlock

SpecTime == InitTime /\ [][NextTime]_vars

\* The cache written through the single-record path only, with the change
\* events of the origin
SinglePaths == {Users \o Slash \o Id42, Users \o Slash \o Id7}

InitSingle == InitWith([ops |-> SingleOps, posts |-> SinglePosts, time |-> 0], Idle, NoReqs)

NextSingle ==
    \/ \E t \in Tasks, c \in SinglePaths : StartSet(t, c, QLimit, "p1")
    \/ \E t \in Tasks : SetStore(t)
    \/ \E t \in Tasks : SetLock(t)
    \/ \E t \in Tasks : SetAddObserver(t)
    \/ \E e \in ChangeEvents : HandlerPost("POST", "application/json", e)
    \/ TimedBufferRecv
    \/ TimedBufferTick
    \/ DispatchRecv
    \/ \E e \in uniqueEvents : DispatchExact(e)
    \/ DispatchWild
    \/ DispatchRUnlock

SpecSingle == InitSingle /\ [][NextSingle]_vars

\* The webhook server from its start to its shutdown
InitDown == InitWith([ops |-> DownOps, posts |-> DownPosts, time |-> 0], Idle, NoReqs)

NextDown ==
    \/ \E c \in WesCollections : UserAddObserver(c, UserCallback(<<"f", "1">>))
    \/ \E e \in ObsEvents : HandlerPost("POST", "application/json", e)
    \/ TimedBufferRecv
    \/ TimedBufferTick
    \/ DispatchRecv
    \/ \E e \in uniqueEvents : DispatchExact(e)
    \/ DispatchWild
    \/ DispatchRUnlock
    \/ Shutdown
    \/ TimedBufferDone
    \/ DispatchDone
    \/ DispatchRecvClosed

SpecDown == InitDown /\ [][NextDown]_vars

\* The client with its query cache and the origin
ItemsPath(c) == <<"/">> \o ItemsSlash \o c
URLs == {[path |-> pa, rawQuery |-> q] :
            pa \in {ItemsPath(Users), ItemsPath(Posts), <<"/">> \o Users},
            q \in {"", QFields}}
Origin == {[err |-> TRUE, code |-> 0, body |-> Nil]}
            \cup {[err |-> FALSE, code |-> k, body |-> b] : k \in {200, 404}, b \in Payloads}

InitCall == InitWith([ops |-> CallOps, posts |-> 0, time |-> 0], Idle, NoReqs)

NextCall ==
    \/ \E t \in Tasks, m \in Methods \cup {"PUT"}, u \in URLs \cup {NoURL} : CallStart(t, m, u)
    \/ \E t \in Tasks, o \in Origin : CallDo(t, o)
    \/ \E t \in Tasks : SetStore(t)
    \/ \E t \in Tasks : SetLock(t)
    \/ \E t \in Tasks : SetAddObserver(t)

SpecCall == InitCall /\ [][NextCall]_vars

\* The client reading through its query cache: GET requests only
ReadURLs == {[path |-> ItemsPath(c), rawQuery |-> ""] : c \in Collections}

InitRead == InitWith([ops |-> ReadOps, posts |-> 0, time |-> 0], Idle, NoReqs)

NextRead ==
    \/ \E t \in Tasks, u \in ReadURLs : CallStart(t, "GET", u)
    \/ \E t \in Tasks, o \in Origin : CallDo(t, o)
    \/ \E t \in Tasks : SetStore(t)
    \/ \E t \in Tasks : SetLock(t)
    \/ \E t \in Tasks : SetAddObserver(t)

SpecRead == InitRead /\ [][NextRead]_vars

\* Key derivation on its own: every task starts with a collection, a record id
\* and a raw query, and derives the key of the single-record form and the key
\* of the equality filter on that id.
Ids == {Id42, Id7}
KeyInputs == {[NoReq EXCEPT !.op = "Key", !.c = c, !.data = i, !.q = q] :
                c \in Collections, i \in Ids, q \in {"", QLimit}}

DeriveKeys(t) ==
    /\ pc[t] = "key"
    /\ Finish(t, [NoRet EXCEPT !.op = "Key",
                               !.body = queryKey(req[t].c \o Slash \o req[t].data, req[t].q),
                               !.sent = queryKey(req[t].c, CanonicalIdFilter(req[t].data))])
    /\ UNCHANGED <<nops, lim, cacheVars, pipeVars, dispVars, wesVars, ghostVars>>

InitKey ==
    \E r \in [Tasks -> KeyInputs] :
        InitWith([ops |-> 0, posts |-> 0, time |-> 0], [t \in Tasks |-> "key"], r)

NextKey == \E t \in Tasks : DeriveKeys(t)

SpecKey == InitKey /\ [][NextKey]_vars

\* ------------------------------------------------------------------ claims
InSet(t, c) == pc[t] \in {"set_store", "set_lock", "set_add"} /\ req[t].c = c
Last(sq) == sq[Len(sq)]

\* The step in which the cache's eviction callback for collection c has run
PruneRan(c) == Len(fired') = Len(fired) + 1 /\ Last(fired').cb = PruneCallback(c)

\* C1: once the eviction callback of a collection has run for a dispatched
\* change event, every Get for that collection misses, and the entries of the
\* other collections are still returned.
C1_EvictionScope ==
    [][\A c \in Collections :
         PruneRan(c) =>
            /\ \A q \in Queries : CacheGet(store', c, q).err
            /\ \A d \in Collections \ {c}, q \in Queries :
                 CacheGet(store', d, q) = CacheGet(store, d, q)]_vars

\* C2: when a collection has a cached entry, is marked observed or had
\* overlapping first writers, and no Set for it is in progress, exactly one
\* AddObserver call for it has succeeded and the registry holds the cache's
\* callback for it.
C2_SingleRegistration ==
    \A c \in Collections :
        (/\ \/ \E q \in Queries : ~CacheGet(store, c, q).err
            \/ c \in observedCollections \cup raced
         /\ \A t \in Tasks : ~InSet(t, c))
            => /\ Count(regOk, c) = 1
               /\ c \in DOMAIN observes
               /\ observes[c] = PruneCallback(c)

\* Two first writers of one collection overlapped, both Sets have returned, and
\* one registration resulted.
C2_Witness ==
    \E c \in raced :
        /\ \A t \in Tasks : pc[t] = "idle"
        /\ Count(regOk, c) = 1
        /\ c \in DOMAIN observes

\* C3: every one of n successive Set(c, q, p) calls completes and returns p: a
\* Set that has written the store never waits for q.mu while the mutex is held
\* with no call inside its locked section to release it, and a Set that returned
\* without error returned the bytes it was given.
C3_RepeatedSetCompletes ==
    /\ \A t \in Tasks : pc[t] = "set_lock" => ~qmu
    /\ (ret.op = "Set" /\ ret.err = "") => ret.body = ret.sent

\* C4: a Get of the (c, q) that the last successful Set wrote, with no
\* eviction or expiry since and the store answering, returns the bytes of
\* that Set.
C4_RoundTrip ==
    (ret.op = "Get" /\ ret.sent # Nil /\ ret.err # "timeout")
        => (ret.err = "" /\ ret.body = ret.sent)

\* A Get returned the payload that overwrote an earlier one under the same key.
C4_Witness ==
    /\ ret.op = "Get" /\ ret.err = "" /\ ret.sent = "p2" /\ ret.body = "p2"
    /\ lastSet.data = "p2"

\* C5: the key of the single-record form (c/i, any query) is the key of
\* (c, the canonical equality filter on id for i).
C5_IdFormEquivalence == ret.op = "Key" => ret.body = ret.sent

\* The events of the flushed batch under the joined key k, in batch order
UnderKey(k) == SelectSeq(flushed, LAMBDA e : Composite(e) = k)

C7_OncePerObserver ==
    /\ \A i, j \in 1..Len(fired) :
         (i # j /\ fired[i].ev = fired[j].ev) => fired[i].obs # fired[j].obs
    /\ \A i \in 1..Len(fired) : fired[i].obs \in {fired[i].ev.collection, Star}

\* C8: an AddObserver call for a key that has a callback returns an error and
\* leaves the registry as it was, and the callback invoked for that key
\* afterwards is the one that was registered before the call.
C8_DuplicateRejected ==
    [][/\ (addRet'.n = addRet.n + 1 /\ addRet'.c \in DOMAIN observes)
            => (addRet'.err /\ observes' = observes)
       /\ (Len(fired') = Len(fired) + 1 /\ addRet.err /\ Last(fired').obs = addRet.c)
            => Last(fired').cb = addRet.old]_vars

\* A second AddObserver with another callback was rejected, and the next event
\* invoked the first callback.
C8_Witness ==
    /\ addRet.err
    /\ addRet.cb # addRet.old
    /\ \E i \in 1..Len(fired) : fired[i].obs = addRet.c /\ fired[i].cb = addRet.old

ValidationErrors == {"invalid method", "url is required", "invalid url"}

\* C9: a POST, PATCH or DELETE that Call accepts never consults the cache and
\* never writes it, and contacts the origin.
C9_WritesBypassCache ==
    (ret.op = "Call" /\ ret.method \in {"POST", "PATCH", "DELETE"}
        /\ ret.err \notin ValidationErrors)
        => (ret.gets = 0 /\ ret.sets = 0 /\ ret.origin = 1)

\* C10: when the cache missed and the origin answered 200 with body B, the
\* response Call returns has exactly B as its body.
C10_MissReturnsOriginBody ==
    (ret.op = "Call" /\ ret.origin = 1 /\ ret.err = "" /\ ret.code = 200)
        => ret.body = ret.sent

\* C11: a GET that Call accepts consults the cache once; when the cache Get
\* returned bytes, Call returns a 200 response with those bytes as its body and
\* the origin was not contacted; when the cache Get returned an error (a miss
\* or a failure of the store), the origin was contacted exactly once.
C11_HitSkipsOrigin ==
    (ret.op = "Call" /\ ret.method = "GET" /\ ret.err \notin ValidationErrors)
        => /\ ret.gets = 1
           /\ ret.cached # Nil
                => (ret.err = "" /\ ret.code = 200 /\ ret.body = ret.cached /\ ret.origin = 0)
           /\ ret.cached = Nil => ret.origin = 1

\* A GET was answered from the cache with the bytes an earlier GET stored.
C11_Witness ==
    /\ ret.op = "Call" /\ ret.method = "GET" /\ ret.cached = "p1" /\ ret.body = "p1"
    /\ ret.code = 200 /\ ret.origin = 0
    /\ \E k \in DOMAIN store : store[k] = "p1"

\* C12: an orderly shutdown drops no event: no background task terminates
\* while an accepted event waits in the hand-off channel, the debounce buffer or
\* the flush output channel with no task left to take it to its observers.
C12_ShutdownFlushes ==
    /\ tbpc = "done" => (inChan = <<>> /\ buf = <<>>)
    /\ dpc = "done" => (inChan = <<>> /\ buf = <<>> /\ outChan = <<>>)

\* C13: a panic of one observer callback prevents no other invocation: when a
\* callback has panicked, the dispatch loop has not stopped short of the
\* wildcard observer of the same event, of another event of the flush, or of
\* a batch that waits for a later flush.
C13_FailureIsolated ==
    dpc = "panic" =>
        /\ Last(fired).obs # Star => Star \notin DOMAIN observes
        /\ uniqueEvents = visited
        /\ inChan = <<>> /\ buf = <<>> /\ outChan = <<>>

\* C14: RemoveObserver leaves the registry usable: the lock it took is released
\* when it has returned, so whenever the dispatch loop is outside its
\* read-locked section no read lock is held on wes.mu and an AddObserver call
\* can take the lock and complete.
C14_RemoveLeavesUsable == dpc = "recv" => wesReaders = 0

\* The requests a client of the endpoint can send, and the endpoint with an
\* observer of the application
HookMethods == {"POST", "GET"}
HookTypes == {"application/json", "text/plain"}
HookBodies == ObsEvents \cup {BadJSON}

InitHook == InitWith([ops |-> HookOps, posts |-> HookPosts, time |-> 0], Idle, NoReqs)

NextHook ==
    \/ \E c \in WesCollections : UserAddObserver(c, UserCallback(<<"f", "1">>))
    \/ \E m \in HookMethods, ct \in HookTypes, b \in HookBodies : HandlerPost(m, ct, b)
    \/ TimedBufferRecv
    \/ TimedBufferTick
    \/ DispatchRecv
    \/ \E e \in uniqueEvents : DispatchExact(e)
    \/ DispatchWild
    \/ DispatchRUnlock

SpecHook == InitHook /\ [][NextHook]_vars

\* The events somewhere between the hand-off channel and the observers
RECURSIVE Flatten(_)
Flatten(batches) == IF batches = <<>> THEN <<>> ELSE Head(batches) \o Flatten(Tail(batches))
InPipeline ==
    {inChan[i] : i \in 1..Len(inChan)} \cup {buf[i] : i \in 1..Len(buf)}
        \cup {Flatten(outChan)[i] : i \in 1..Len(Flatten(outChan))}
        \cup uniqueEvents \cup {fired[i].ev : i \in 1..Len(fired)}

InBlockedCall ==
    \/ /\ dpc = "range"
       /\ uniqueEvents # visited
       /\ \A e \in uniqueEvents \ visited :
             e.collection \in DOMAIN observes /\ observes[e.collection].kind = "block"
    \/ /\ dpc = "wild"
       /\ Star \in DOMAIN observes /\ observes[Star].kind = "block"

\* C16: an observer that does not return never makes the handler wait at the
\* hand-off for good: the hand-off channel is never full while the timed-buffer
\* task waits to send into the full output channel and the dispatch loop is in
\* the call of such an observer.
C16_HandlerDecoupled ==
    ~(/\ InBlockedCall
      /\ Len(outChan) = OutChanCap
      /\ tbpc = "send"
      /\ Len(inChan) = InChanCap)

\* Intervals within which a buffered event is to be flushed
FlushBound == 2

\* C17: the debounce task flushes on a fixed interval whatever the traffic: no
\* event waits in the buffer for more than FlushBound intervals before it is
\* handed to dispatch, also when events keep arriving with gaps shorter than
\* the interval.
C17_FlushWithinBound == (tbpc = "select" /\ buf # <<>>) => bufAge <= FlushBound * Interval

\* C18: the observed set and the observer registry stay in sync: when no Set
\* is in progress (the eviction callback is one step), a collection is in the
\* observed set if and only if an observer is registered for it; so after the
\* eviction callback has run for c, c is in neither.
C18_SetAndRegistryInSync ==
    (\A t \in Tasks : pc[t] = "idle")
        => \A c \in Collections : c \in observedCollections <=> c \in DOMAIN observes

\* C19: Shutdown terminates the background pipeline: once the done signal has
\* been taken, and none is left to take, both the timed-buffer task and the
\* dispatch task have terminated.
C19_ShutdownTerminates == shut = "taken" => (tbpc = "done" /\ dpc = "done")

\* C20: entries written through the single-record path are covered: when the
\* store holds the entry of a returned Set("c/id", q, p) and the dispatch loop
\* comes to a change event of collection c, it invokes the cache's eviction
\* callback for c.
C20_SingleRecordCovered ==
    [][\A e \in visited' \ visited :
         (/\ lastSet.op = "Set"
          /\ Len(Split(lastSet.c, Slash)) = 2
          /\ Split(lastSet.c, Slash)[1] = e.collection
          /\ ~CacheGet(store, lastSet.c, lastSet.q).err
          /\ \A t \in Tasks : pc[t] = "idle")
            => /\ Len(fired') = Len(fired) + 1
               /\ Last(fired').ev = e
               /\ Last(fired').cb = PruneCallback(e.collection)]_vars

\* The store holds an entry that a Set for collection c wrote
HoldsEntry(c) == \E q \in Queries : ~CacheGet(store, c, q).err

\* C21: no cached entry is left without invalidation coverage: in every state
\* in which the store holds an entry written by Set for collection c the
\* cache's eviction callback is registered for c, and when the dispatch loop
\* comes to a change event of c while the store holds such an entry it
\* invokes that callback.
C21_EntryAlwaysCovered ==
    /\ [](\A c \in Collections :
            HoldsEntry(c) => (c \in DOMAIN observes /\ observes[c] = PruneCallback(c)))
    /\ [][\A e \in visited' \ visited :
            (e.collection \in Collections /\ HoldsEntry(e.collection))
                => /\ Len(fired') = Len(fired) + 1
                   /\ Last(fired').ev = e
                   /\ Last(fired').cb = PruneCallback(e.collection)]_vars

====
